---- MODULE Spec2Model ----
(***************************************************************************)
(* Model of abefw_mangler.py: main() walks an ASoC/ABE firmware stream     *)
(* block by block.  The stream is a sequence of bytes, the cursor `pos` is *)
(* fw.tell(), and every struct of the script is decoded from the bytes at  *)
(* the cursor with the size its format string gives it.  A Python          *)
(* exception ends the run in pc = "Failed" with the exception's name in    *)
(* `err`; leaving the while loop ends it in pc = "Done".                   *)
(*                                                                         *)
(* Streams are shorter than the BufferedReader's buffer, so that peek()    *)
(* returns every byte that is left.  All 32-bit fields of the streams      *)
(* stay below 2^31.                                                        *)
(***************************************************************************)
EXTENDS Integers, Sequences, FiniteSets, TLC

VARIABLES
    data,         \* the bytes behind args.fw_file
    pos,          \* fw.tell()
    pc,           \* position of main() in its loop
    err,          \* name of the exception that ended the run, or "none"
    hdr,          \* the local `hdr`: <<>> while unbound, else <<header>>
    fw_list,      \* the local `fw_list`
    next_offset,  \* the local `next_offset`
    count,        \* sfwk.count / elem_info.count of the running loop
    index,        \* loop variable `index`
    items,        \* kcontrols / routes / widgets collected so far
    peeked,       \* history: one [at, avail, blocks, fresh] per loop entry
    body_start,   \* history: fw.tell() at line 219 of the current block
    nested        \* history: <<>> or <<[start, size]>> of a nested header

vars == <<data, pos, pc, err, hdr, fw_list, next_offset, count, index, items,
          peeked, body_start, nested>>

(***************************************************************************)
(* Enumerations and struct sizes                                           *)
(***************************************************************************)
SND_SOC_FW_MIXER == 1
SND_SOC_FW_DAPM_GRAPH == 2
SND_SOC_FW_DAPM_WIDGET == 3
SND_SOC_FW_DAI_LINK == 4
SND_SOC_FW_COEFF == 5
SND_SOC_FW_VENDOR_FW == 1000
SND_SOC_FW_VENDOR_CONFIG == 1001
SND_SOC_FW_VENDOR_COEFF == 1002
SND_SOC_FW_VENDOR_CODEC == 1003

FwType == {1, 2, 3, 4, 5, 1000, 1001, 1002, 1003}

SND_SOC_FW_NUM_TEXTS == 16
SND_SOC_FW_TEXT_SIZE == 32

SocType == {0, 1, 2, 3, 4, 6, 7, 8, 9, 10, 11, 12, 64, 65, 66, 67, 68, 69}

\* the id_info lists of the three decoders
MixerScalarKinds == {1, 12, 2, 3, 4, 8, 9, 11, 64, 68}
MixerEnumKinds == {6, 7, 10, 65, 66, 67, 69}
WidgetScalarKinds == {1, 12, 2, 3, 4, 8, 9, 11, 64}
WidgetEnumKinds == {6, 7, 10, 65, 66, 67, 69}
CoeffEnumKinds == {6, 7, 10}

\* struct.Struct(fmt).size of each decorated class
HeaderSize == 24
TlvSize == 8
ControlHeaderSize == 44
MixerControlSize == 32
EnumControlSize == 1052
KControlSize == 4
GraphElemSize == 96
WidgetSize == 88
CoeffDataSize == 12
AbeHeaderSize == 20

(***************************************************************************)
(* Bytes                                                                   *)
(***************************************************************************)
Min(a, b) == IF a < b THEN a ELSE b

SetMax(S) == CHOOSE x \in S : \A y \in S : y <= x

\* stream.read(n) at cursor p: the bytes that are there, at most n
Read(d, p, n) == SubSeq(d, p + 1, Min(p + n, Len(d)))

\* little-endian 'L' at offset off (0-based) of buffer b
U32(b, off) == b[off + 1] + 256 * b[off + 2] + 65536 * b[off + 3]
               + 16777216 * b[off + 4]

\* little-endian 'l' at offset off of buffer b
S32(b, off) ==
    IF b[off + 4] >= 128
    THEN b[off + 1] + 256 * b[off + 2] + 65536 * b[off + 3]
         + 16777216 * (b[off + 4] - 256)
    ELSE U32(b, off)

\* bytes.decode('utf-8') succeeds on b[i..]
RECURSIVE Utf8From(_, _)
Utf8From(b, i) ==
    LET n == Len(b)
        Cont(j) == j <= n /\ b[j] >= 128 /\ b[j] <= 191
        In(j, lo, hi) == j <= n /\ b[j] >= lo /\ b[j] <= hi
    IN  IF i > n THEN TRUE
        ELSE IF b[i] < 128 THEN Utf8From(b, i + 1)
        ELSE IF b[i] >= 194 /\ b[i] <= 223
             THEN Cont(i + 1) /\ Utf8From(b, i + 2)
        ELSE IF b[i] = 224
             THEN In(i + 1, 160, 191) /\ Cont(i + 2) /\ Utf8From(b, i + 3)
        ELSE IF b[i] = 237
             THEN In(i + 1, 128, 159) /\ Cont(i + 2) /\ Utf8From(b, i + 3)
        ELSE IF b[i] >= 225 /\ b[i] <= 239
             THEN Cont(i + 1) /\ Cont(i + 2) /\ Utf8From(b, i + 3)
        ELSE IF b[i] = 240
             THEN In(i + 1, 144, 191) /\ Cont(i + 2) /\ Cont(i + 3)
                  /\ Utf8From(b, i + 4)
        ELSE IF b[i] >= 241 /\ b[i] <= 243
             THEN Cont(i + 1) /\ Cont(i + 2) /\ Cont(i + 3)
                  /\ Utf8From(b, i + 4)
        ELSE IF b[i] = 244
             THEN In(i + 1, 128, 143) /\ Cont(i + 2) /\ Cont(i + 3)
                  /\ Utf8From(b, i + 4)
        ELSE FALSE

Utf8Valid(b) == Utf8From(b, 1)

\* str.rstrip('\x00') of a decoded text, kept as its bytes
RStrip(b) ==
    LET nz == {i \in 1..Len(b) : b[i] # 0}
    IN  SubSeq(b, 1, IF nz = {} THEN 0 ELSE SetMax(nz))

(***************************************************************************)
(* The decorated classes: each reads struct size bytes at cursor p and     *)
(* yields [err, pos, val]; err = "none" when the record was built.         *)
(***************************************************************************)
NoVal == [none |-> TRUE]

Res(e, p, v) == [err |-> e, pos |-> p, val |-> v]

\* @header('<4s5L') class SndSocFwHeader
SndSocFwHeader(d, p) ==
    LET b == Read(d, p, HeaderSize)
        np == p + Len(b)
    IN  IF Len(b) < HeaderSize THEN Res("struct.error", np, NoVal)
        ELSE IF ~Utf8Valid(SubSeq(b, 1, 4))
             THEN Res("UnicodeDecodeError", np, NoVal)
        ELSE IF U32(b, 8) \notin FwType THEN Res("ValueError", np, NoVal)
        ELSE Res("none", np,
                 [magic |-> SubSeq(b, 1, 4), abi |-> U32(b, 4),
                  type |-> U32(b, 8), vendor_type |-> U32(b, 12),
                  vendor_version |-> U32(b, 16), size |-> U32(b, 20)])

\* @header('<2L') class SndSocFwControlTlv
SndSocFwControlTlv(d, p) ==
    LET b == Read(d, p, TlvSize)
        np == p + Len(b)
    IN  IF Len(b) < TlvSize THEN Res("struct.error", np, NoVal)
        ELSE Res("none", np, [numid |-> U32(b, 0), length |-> U32(b, 4)])

\* @header('<32s3L') class SndSocFwControlHeader
SndSocFwControlHeader(d, p) ==
    LET b == Read(d, p, ControlHeaderSize)
        np == p + Len(b)
    IN  IF Len(b) < ControlHeaderSize THEN Res("struct.error", np, NoVal)
        ELSE IF ~Utf8Valid(SubSeq(b, 1, 32))
             THEN Res("UnicodeDecodeError", np, NoVal)
        ELSE IF (U32(b, 32) % 256) \notin SocType
             THEN Res("ValueError", np, NoVal)
        ELSE Res("none", np,
                 [name |-> RStrip(SubSeq(b, 1, 32)), index |-> U32(b, 32),
                  access |-> U32(b, 36), tlv_size |-> U32(b, 40),
                  id_info |-> U32(b, 32) % 256])

\* @header('<8L') class SndSocFwMixerControl
SndSocFwMixerControl(d, p) ==
    LET b == Read(d, p, MixerControlSize)
        np == p + Len(b)
    IN  IF Len(b) < MixerControlSize THEN Res("struct.error", np, NoVal)
        ELSE Res("none", np,
                 [min |-> U32(b, 0), max |-> U32(b, 4),
                  platform_max |-> U32(b, 8), reg |-> U32(b, 12),
                  rreg |-> U32(b, 16), shift |-> U32(b, 20),
                  rshift |-> U32(b, 24), invert |-> U32(b, 28)])

\* SndSocFwEnumControl.__post_init__: the texts and values of the payload
EnumTexts(payload) ==
    [i \in 1..SND_SOC_FW_NUM_TEXTS |->
        SubSeq(payload, (i - 1) * SND_SOC_FW_TEXT_SIZE + 1,
               i * SND_SOC_FW_TEXT_SIZE)]

\* EnumValues taking the value one slot further on
EnumValuesShifted(payload, texts) ==
    LET base == SND_SOC_FW_NUM_TEXTS * SND_SOC_FW_TEXT_SIZE
        used == {i \in 1..SND_SOC_FW_NUM_TEXTS : texts[i] # <<>>}
    IN  [t \in {texts[i] : i \in used} |->
            U32(payload, base + 4 * SetMax({i \in used : texts[i] = t}))]

EnumValues(payload, texts) ==
    LET base == SND_SOC_FW_NUM_TEXTS * SND_SOC_FW_TEXT_SIZE
        used == {i \in 1..SND_SOC_FW_NUM_TEXTS : texts[i] # <<>>}
    IN  [t \in {texts[i] : i \in used} |->
            U32(payload, base + 4 * (SetMax({i \in used : texts[i] = t}) - 1))]

\* @header('<7L1024s') class SndSocFwEnumControl
SndSocFwEnumControl(d, p) ==
    LET b == Read(d, p, EnumControlSize)
        np == p + Len(b)
        payload == SubSeq(b, 29, EnumControlSize)
        raw == EnumTexts(payload)
        texts == [i \in 1..SND_SOC_FW_NUM_TEXTS |-> RStrip(raw[i])]
    IN  IF Len(b) < EnumControlSize THEN Res("struct.error", np, NoVal)
        ELSE IF \E i \in 1..SND_SOC_FW_NUM_TEXTS : ~Utf8Valid(raw[i])
             THEN Res("UnicodeDecodeError", np, NoVal)
        ELSE Res("none", np,
                 [reg |-> U32(b, 0), reg2 |-> U32(b, 4),
                  shift_l |-> U32(b, 8), shift_r |-> U32(b, 12),
                  max |-> U32(b, 16), mask |-> U32(b, 20),
                  count |-> U32(b, 24), values |-> EnumValues(payload, texts)])

\* @header('<L') class SndSocFwKControl (alias SndSocFwDapmElems)
SndSocFwKControl(d, p) ==
    LET b == Read(d, p, KControlSize)
        np == p + Len(b)
    IN  IF Len(b) < KControlSize THEN Res("struct.error", np, NoVal)
        ELSE Res("none", np, [count |-> U32(b, 0)])

\* @header('<32s32s32s') class SndSocFwDapmGraphElem; control None is <<>>
SndSocFwDapmGraphElem(d, p) ==
    LET b == Read(d, p, GraphElemSize)
        np == p + Len(b)
    IN  IF Len(b) < GraphElemSize THEN Res("struct.error", np, NoVal)
        ELSE IF \E k \in 0..2 : ~Utf8Valid(SubSeq(b, 32 * k + 1, 32 * k + 32))
             THEN Res("UnicodeDecodeError", np, NoVal)
        ELSE Res("none", np,
                 [sink |-> RStrip(SubSeq(b, 1, 32)),
                  control |-> RStrip(SubSeq(b, 33, 64)),
                  source |-> RStrip(SubSeq(b, 65, 96))])

\* @header('<L32s32slLL??2xL') class SndSocFwDapmWidget
SndSocFwDapmWidget(d, p) ==
    LET b == Read(d, p, WidgetSize)
        np == p + Len(b)
    IN  IF Len(b) < WidgetSize THEN Res("struct.error", np, NoVal)
        ELSE IF \E k \in 0..1 :
                    ~Utf8Valid(SubSeq(b, 4 + 32 * k + 1, 4 + 32 * k + 32))
             THEN Res("UnicodeDecodeError", np, NoVal)
        ELSE Res("none", np,
                 [id |-> U32(b, 0), name |-> RStrip(SubSeq(b, 5, 36)),
                  sname |-> RStrip(SubSeq(b, 37, 68)), reg |-> S32(b, 68),
                  shift |-> U32(b, 72), mask |-> U32(b, 76),
                  invert |-> b[81] # 0, ignore_suspend |-> b[82] # 0,
                  kcontrol_count |-> U32(b, 84)])

\* @header('<3L') class SndSocFileCoeffData
SndSocFileCoeffData(d, p) ==
    LET b == Read(d, p, CoeffDataSize)
        np == p + Len(b)
    IN  IF Len(b) < CoeffDataSize THEN Res("struct.error", np, NoVal)
        ELSE Res("none", np,
                 [count |-> U32(b, 0), size |-> U32(b, 4), id |-> U32(b, 8)])

\* @header('<5L') class AbeFirmwareHeader
AbeFirmwareHeader(d, p) ==
    LET b == Read(d, p, AbeHeaderSize)
        np == p + Len(b)
    IN  IF Len(b) < AbeHeaderSize THEN Res("struct.error", np, NoVal)
        ELSE Res("none", np,
                 [version |-> U32(b, 0), pmem_size |-> U32(b, 4),
                  cmem_size |-> U32(b, 8), dmem_size |-> U32(b, 12),
                  smem_size |-> U32(b, 16)])

(***************************************************************************)
(* main(): the loop over the blocks                                        *)
(***************************************************************************)
\* loop-entry cap of the model: main() itself has none
MaxBlocks == 3

\* an exception leaves main(): the locals are dead, the cursor stays
Raise(e, p) ==
    /\ pc' = "Failed"
    /\ err' = e
    /\ pos' = p
    /\ UNCHANGED <<data, hdr, fw_list, next_offset, count, index, items,
                   peeked, body_start, nested>>

\* fw_list[-1][key] = value
SetBody(b) == [fw_list EXCEPT ![Len(fw_list)].body = b]

\* abi_version(fw): struct.unpack_from('<4sL', fw.peek(8))
abi_version(d, p) ==
    LET b == Read(d, p, 8)
    IN  IF Len(b) < 8 THEN Res("struct.error", p, NoVal)
        ELSE Res("none", p, U32(b, 4))

\* PeekBlock entering the loop body whatever fw.peek(1) returns
PeekBlockAlways ==
    /\ pc = "AwaitingBlock"
    /\ pc' = "DecodingHeader"
    /\ peeked' = Append(peeked, [at |-> pos, avail |-> Len(data) - pos,
                                 blocks |-> Len(fw_list), fresh |-> FALSE])
    /\ UNCHANGED <<data, pos, err, hdr, fw_list, next_offset, count, index,
                   items, body_start, nested>>

\* PeekBlock with fw.read(1) in place of fw.peek(1)
PeekBlockRead ==
    /\ pc = "AwaitingBlock"
    /\ pc' = IF Len(Read(data, pos, 1)) > 0 THEN "DecodingHeader" ELSE "Done"
    /\ pos' = pos + Len(Read(data, pos, 1))
    /\ peeked' = Append(peeked, [at |-> pos, avail |-> Len(data) - pos,
                                 blocks |-> Len(fw_list), fresh |-> FALSE])
    /\ UNCHANGED <<data, err, hdr, fw_list, next_offset, count, index,
                   items, body_start, nested>>

\* while fw.peek(1)
PeekBlock ==
    /\ pc = "AwaitingBlock"
    /\ pc' = IF Len(Read(data, pos, 1)) > 0 THEN "DecodingHeader" ELSE "Done"
    /\ peeked' = Append(peeked, [at |-> pos, avail |-> Len(data) - pos,
                                 blocks |-> Len(fw_list), fresh |-> FALSE])
    /\ UNCHANGED <<data, pos, err, hdr, fw_list, next_offset, count, index,
                   items, body_start, nested>>

\* lines 204-219: the header, the new fw_list entry and next_offset
DecodeHeader ==
    /\ pc = "DecodingHeader"
    /\ Len(fw_list) < MaxBlocks
    /\ LET a == abi_version(data, pos)
       IN  IF a.err # "none" THEN Raise(a.err, a.pos)
           ELSE
           LET r == IF a.val = 1 THEN SndSocFwHeader(data, pos)
                    ELSE Res("none", pos, NoVal)
               h == IF a.val = 1 THEN <<r.val>> ELSE hdr
           IN  IF r.err # "none" THEN Raise(r.err, r.pos)
               ELSE IF h = <<>> THEN Raise("UnboundLocalError", r.pos)
               ELSE /\ hdr' = h
                    /\ pos' = r.pos
                    /\ fw_list' = Append(fw_list,
                           [type |-> h[1].type,
                            vendor_type |-> h[1].vendor_type,
                            vendor_version |-> h[1].vendor_version,
                            size |-> h[1].size,
                            body |-> [key |-> "none"]])
                    /\ next_offset' = r.pos + h[1].size
                    /\ pc' = "DecodingBody"
                    /\ peeked' = [peeked EXCEPT
                                      ![Len(peeked)].fresh = (a.val = 1)]
                    /\ body_start' = r.pos
                    /\ nested' = <<>>
                    /\ UNCHANGED <<data, err, count, index, items>>

\* a kcontrols entry: asdict(control_hdr), before its body is attached
Control(ch) ==
    [name |-> ch.name, index |-> ch.index, access |-> ch.access,
     tlv_size |-> ch.tlv_size, id_info |-> ch.id_info,
     mixer |-> <<>>, tlv |-> <<>>, enum |-> <<>>]

\* lines 221-224
MixerBegin ==
    /\ pc = "DecodingBody"
    /\ hdr[1].type = SND_SOC_FW_MIXER
    /\ LET sfwk == SndSocFwKControl(data, pos)
       IN  IF sfwk.err # "none" THEN Raise(sfwk.err, sfwk.pos)
           ELSE /\ pos' = sfwk.pos
                /\ count' = sfwk.val.count
                /\ index' = 0
                /\ items' = <<>>
                /\ fw_list' = SetBody([key |-> "mixer",
                                       count |-> sfwk.val.count])
                /\ pc' = "MixerLoop"
                /\ UNCHANGED <<data, err, hdr, next_offset, peeked,
                               body_start, nested>>

\* lines 226-260: one control of a mixer block, read at cursor p
MixerKControl(d, p) ==
    LET ch == SndSocFwControlHeader(d, p)
    IN  IF ch.err # "none" THEN ch
        ELSE IF ch.val.id_info \in MixerScalarKinds
        THEN LET mc == SndSocFwMixerControl(d, ch.pos)
             IN  IF mc.err # "none" THEN mc
                 ELSE IF ch.val.tlv_size # 0
                 THEN LET tlv == SndSocFwControlTlv(d, mc.pos)
                      IN  IF tlv.err # "none" THEN tlv
                          ELSE LET value == Read(d, tlv.pos, tlv.val.length)
                               IN  Res("none", tlv.pos + Len(value),
                                       [Control(ch.val) EXCEPT
                                           !.mixer = <<mc.val>>,
                                           !.tlv = <<[numid |-> tlv.val.numid,
                                                      length |-> tlv.val.length,
                                                      value |-> value]>>])
                 ELSE Res("none", mc.pos,
                          [Control(ch.val) EXCEPT !.mixer = <<mc.val>>])
        ELSE IF ch.val.id_info \in MixerEnumKinds
        THEN LET ec == SndSocFwEnumControl(d, ch.pos)
             IN  IF ec.err # "none" THEN ec
                 ELSE Res("none", ec.pos,
                          [Control(ch.val) EXCEPT !.enum = <<ec.val>>])
        ELSE Res("none", ch.pos, Control(ch.val))

\* one iteration of `for index in range(sfwk.count)`, lines 225-260
MixerControl ==
    /\ pc = "MixerLoop"
    /\ index < count
    /\ LET r == MixerKControl(data, pos)
       IN  IF r.err # "none" THEN Raise(r.err, r.pos)
           ELSE /\ pos' = r.pos
                /\ items' = Append(items, r.val)
                /\ index' = index + 1
                /\ UNCHANGED <<data, pc, err, hdr, fw_list, next_offset,
                               count, peeked, body_start, nested>>

\* line 261
MixerEnd ==
    /\ pc = "MixerLoop"
    /\ index >= count
    /\ fw_list' = SetBody([key |-> "mixer", count |-> count,
                           controls |-> items])
    /\ pc' = "Validating"
    /\ UNCHANGED <<data, pos, err, hdr, next_offset, count, index, items,
                   peeked, body_start, nested>>

\* lines 263-266
GraphBegin ==
    /\ pc = "DecodingBody"
    /\ hdr[1].type = SND_SOC_FW_DAPM_GRAPH
    /\ LET elem_info == SndSocFwKControl(data, pos)
       IN  IF elem_info.err # "none" THEN Raise(elem_info.err, elem_info.pos)
           ELSE /\ pos' = elem_info.pos
                /\ count' = elem_info.val.count
                /\ index' = 0
                /\ items' = <<>>
                /\ fw_list' = SetBody([key |-> "dapm_graph",
                                       count |-> elem_info.val.count])
                /\ pc' = "GraphLoop"
                /\ UNCHANGED <<data, err, hdr, next_offset, peeked,
                               body_start, nested>>

\* lines 267-269: one route
GraphElem ==
    /\ pc = "GraphLoop"
    /\ index < count
    /\ LET elem == SndSocFwDapmGraphElem(data, pos)
       IN  IF elem.err # "none" THEN Raise(elem.err, elem.pos)
           ELSE /\ pos' = elem.pos
                /\ items' = Append(items, elem.val)
                /\ index' = index + 1
                /\ UNCHANGED <<data, pc, err, hdr, fw_list, next_offset,
                               count, peeked, body_start, nested>>

\* line 270
GraphEnd ==
    /\ pc = "GraphLoop"
    /\ index >= count
    /\ fw_list' = SetBody([key |-> "dapm_graph", count |-> count,
                           routes |-> items])
    /\ pc' = "Validating"
    /\ UNCHANGED <<data, pos, err, hdr, next_offset, count, index, items,
                   peeked, body_start, nested>>

\* lines 272-275
WidgetBegin ==
    /\ pc = "DecodingBody"
    /\ hdr[1].type = SND_SOC_FW_DAPM_WIDGET
    /\ LET elem_info == SndSocFwKControl(data, pos)
       IN  IF elem_info.err # "none" THEN Raise(elem_info.err, elem_info.pos)
           ELSE /\ pos' = elem_info.pos
                /\ count' = elem_info.val.count
                /\ index' = 0
                /\ items' = <<>>
                /\ fw_list' = SetBody([key |-> "dapm_widget",
                                       count |-> elem_info.val.count])
                /\ pc' = "WidgetLoop"
                /\ UNCHANGED <<data, err, hdr, next_offset, peeked,
                               body_start, nested>>

\* lines 295-302: iterations mixer..k-1 of `for mixer in range(k)`
RECURSIVE WidgetMixers(_, _, _, _, _)
WidgetMixers(d, p, mixer, k, kcontrols) ==
    IF mixer >= k THEN Res("none", p, kcontrols)
    ELSE LET ch == IF mixer # 0 THEN SndSocFwControlHeader(d, p)
                   ELSE Res("none", p, NoVal)
         IN  IF ch.err # "none" THEN ch
             ELSE LET ks == IF mixer # 0
                            THEN Append(kcontrols, Control(ch.val))
                            ELSE kcontrols
                      mc == SndSocFwMixerControl(d, ch.pos)
                  IN  IF mc.err # "none" THEN mc
                      ELSE WidgetMixers(d, mc.pos, mixer + 1, k,
                               [ks EXCEPT ![Len(ks)].mixer = <<mc.val>>])

\* lines 280-315: the controls of a widget with kcontrol_count k
WidgetKControls(d, p, k) ==
    IF k = 0 THEN Res("none", p, <<>>)
    ELSE LET ch == SndSocFwControlHeader(d, p)
         IN  IF ch.err # "none" THEN ch
             ELSE IF ch.val.id_info \in WidgetScalarKinds
             THEN WidgetMixers(d, ch.pos, 0, k, <<Control(ch.val)>>)
             ELSE IF ch.val.id_info \in WidgetEnumKinds
             THEN LET ec == SndSocFwEnumControl(d, ch.pos)
                  IN  IF ec.err # "none" THEN ec
                      ELSE Res("none", ec.pos,
                               <<[Control(ch.val) EXCEPT !.enum = <<ec.val>>]>>)
             ELSE Res("none", ch.pos, <<Control(ch.val)>>)

\* lines 277-316: one widget with its controls
WidgetElem ==
    /\ pc = "WidgetLoop"
    /\ index < count
    /\ LET widget == SndSocFwDapmWidget(data, pos)
       IN  IF widget.err # "none" THEN Raise(widget.err, widget.pos)
           ELSE
           LET kc == WidgetKControls(data, widget.pos,
                                     widget.val.kcontrol_count)
           IN  IF kc.err # "none" THEN Raise(kc.err, kc.pos)
               ELSE /\ pos' = kc.pos
                    /\ items' = Append(items, [widget |-> widget.val,
                                               controls |-> kc.val])
                    /\ index' = index + 1
                    /\ UNCHANGED <<data, pc, err, hdr, fw_list, next_offset,
                                   count, peeked, body_start, nested>>

\* line 317
WidgetEnd ==
    /\ pc = "WidgetLoop"
    /\ index >= count
    /\ fw_list' = SetBody([key |-> "dapm_widget", count |-> count,
                           widgets |-> items])
    /\ pc' = "Validating"
    /\ UNCHANGED <<data, pos, err, hdr, next_offset, count, index, items,
                   peeked, body_start, nested>>

\* lines 318-319: a warning, nothing is read
DaiLink ==
    /\ pc = "DecodingBody"
    /\ hdr[1].type = SND_SOC_FW_DAI_LINK
    /\ pc' = "Validating"
    /\ UNCHANGED <<data, pos, err, hdr, fw_list, next_offset, count, index,
                   items, peeked, body_start, nested>>

\* lines 320-334: the count and the control of a coefficient block
CoeffBegin ==
    /\ pc = "DecodingBody"
    /\ hdr[1].type = SND_SOC_FW_COEFF
    /\ IF hdr[1].vendor_type # 0
       THEN /\ pc' = "Validating"
            /\ UNCHANGED <<data, pos, err, hdr, fw_list, next_offset, count,
                           index, items, peeked, body_start, nested>>
       ELSE
       LET sfwk == SndSocFwKControl(data, pos)
       IN  IF sfwk.err # "none" THEN Raise(sfwk.err, sfwk.pos)
           ELSE
           LET ch == SndSocFwControlHeader(data, sfwk.pos)
           IN  IF ch.err # "none" THEN Raise(ch.err, ch.pos)
               ELSE
               LET ec == IF ch.val.id_info \in CoeffEnumKinds
                         THEN SndSocFwEnumControl(data, ch.pos)
                         ELSE Res("none", ch.pos, NoVal)
               IN  IF ec.err # "none" THEN Raise(ec.err, ec.pos)
                   ELSE /\ pos' = ec.pos
                        /\ count' = sfwk.val.count
                        /\ fw_list' = SetBody(
                               [key |-> "coefficients",
                                count |-> sfwk.val.count,
                                enum |-> IF ch.val.id_info \in CoeffEnumKinds
                                         THEN <<ec.val>> ELSE <<>>])
                        /\ pc' = "CoeffData"
                        /\ UNCHANGED <<data, err, hdr, next_offset, index,
                                       items, peeked, body_start, nested>>

\* CoeffChunks with chunks of size / n rounded up
CoeffChunksCeil(d, p, size, n, left) ==
    IF left = 0 THEN [pos |-> p, values |-> <<>>]
    ELSE LET c == (size + n - 1) \div n
         IN  [pos |-> Min(p + left * c, Len(d)),
              values |-> [i \in 1..left |-> Read(d, p + (i - 1) * c, c)]]

\* line 340: n chunks of fw.read(size // n), read from cursor p
RECURSIVE CoeffChunks(_, _, _, _, _)
CoeffChunks(d, p, size, n, left) ==
    IF left = 0 THEN [pos |-> p, values |-> <<>>]
    ELSE LET chunk == Read(d, p, size \div n)
             rest == CoeffChunks(d, p + Len(chunk), size, n, left - 1)
         IN  [pos |-> rest.pos, values |-> <<chunk>> \o rest.values]

\* CoeffNested without line 336: next_offset keeps the top-level value
CoeffNestedKeepOffset ==
    /\ pc = "CoeffData"
    /\ LET h == SndSocFwHeader(data, pos)
       IN  IF h.err # "none" THEN Raise(h.err, h.pos)
           ELSE
           LET cd == SndSocFileCoeffData(data, h.pos)
           IN  IF cd.err # "none" THEN Raise(cd.err, cd.pos)
               ELSE
               LET ch == CoeffChunks(data, cd.pos, cd.val.size, cd.val.count,
                                     cd.val.count)
               IN  /\ hdr' = <<h.val>>
                   /\ nested' = <<[start |-> h.pos, size |-> h.val.size]>>
                   /\ pos' = ch.pos
                   /\ fw_list' = SetBody(
                          [key |-> "coefficients", count |-> count,
                           enum |-> fw_list[Len(fw_list)].body.enum,
                           data |-> [count |-> cd.val.count,
                                     size |-> cd.val.size, id |-> cd.val.id,
                                     values |-> ch.values]])
                   /\ pc' = "Validating"
                   /\ UNCHANGED <<data, err, next_offset, count, index, items,
                                  peeked, body_start>>

\* lines 335-342: the nested header, the new next_offset and the data
CoeffNested ==
    /\ pc = "CoeffData"
    /\ LET h == SndSocFwHeader(data, pos)
       IN  IF h.err # "none" THEN Raise(h.err, h.pos)
           ELSE
           LET cd == SndSocFileCoeffData(data, h.pos)
           IN  IF cd.err # "none" THEN Raise(cd.err, cd.pos)
               ELSE
               LET ch == CoeffChunks(data, cd.pos, cd.val.size, cd.val.count,
                                     cd.val.count)
               IN  /\ hdr' = <<h.val>>
                   /\ next_offset' = h.pos + h.val.size
                   /\ nested' = <<[start |-> h.pos, size |-> h.val.size]>>
                   /\ pos' = ch.pos
                   /\ fw_list' = SetBody(
                          [key |-> "coefficients", count |-> count,
                           enum |-> fw_list[Len(fw_list)].body.enum,
                           data |-> [count |-> cd.val.count,
                                     size |-> cd.val.size, id |-> cd.val.id,
                                     values |-> ch.values]])
                   /\ pc' = "Validating"
                   /\ UNCHANGED <<data, err, count, index, items, peeked,
                                  body_start>>

\* lines 344-352: the firmware header and its four segments
VendorFw ==
    /\ pc = "DecodingBody"
    /\ hdr[1].type = SND_SOC_FW_VENDOR_FW
    /\ LET abe == AbeFirmwareHeader(data, pos)
       IN  IF abe.err # "none" THEN Raise(abe.err, abe.pos)
           ELSE
           LET pmem == Read(data, abe.pos, abe.val.pmem_size)
               p1 == abe.pos + Len(pmem)
               cmem == Read(data, p1, abe.val.cmem_size)
               p2 == p1 + Len(cmem)
               dmem == Read(data, p2, abe.val.dmem_size)
               p3 == p2 + Len(dmem)
               smem == Read(data, p3, abe.val.smem_size)
           IN  /\ pos' = p3 + Len(smem)
               /\ fw_list' = SetBody(
                      [key |-> "fw", version |-> abe.val.version,
                       pmem_size |-> abe.val.pmem_size,
                       cmem_size |-> abe.val.cmem_size,
                       dmem_size |-> abe.val.dmem_size,
                       smem_size |-> abe.val.smem_size,
                       pmem |-> pmem, cmem |-> cmem, dmem |-> dmem,
                       smem |-> smem])
               /\ pc' = "Validating"
               /\ UNCHANGED <<data, err, hdr, next_offset, count, index,
                              items, peeked, body_start, nested>>

\* lines 353-355
VendorConfig ==
    /\ pc = "DecodingBody"
    /\ hdr[1].type = SND_SOC_FW_VENDOR_CONFIG
    /\ LET config == Read(data, pos, hdr[1].size)
       IN  /\ pos' = pos + Len(config)
           /\ fw_list' = SetBody([key |-> "config", config |-> config])
    /\ pc' = "Validating"
    /\ UNCHANGED <<data, err, hdr, next_offset, count, index, items, peeked,
                   body_start, nested>>

\* lines 356-357: a warning, nothing is read
NotSupported ==
    /\ pc = "DecodingBody"
    /\ hdr[1].type \in {SND_SOC_FW_VENDOR_COEFF, SND_SOC_FW_VENDOR_CODEC}
    /\ pc' = "Validating"
    /\ UNCHANGED <<data, pos, err, hdr, fw_list, next_offset, count, index,
                   items, peeked, body_start, nested>>

\* Validate with `assert fw.tell() <= next_offset`
ValidateAtMost ==
    /\ pc = "Validating"
    /\ IF pos <= next_offset
       THEN /\ pc' = "AwaitingBlock"
            /\ UNCHANGED <<data, pos, err, hdr, fw_list, next_offset, count,
                           index, items, peeked, body_start, nested>>
       ELSE Raise("AssertionError", pos)

\* line 358: assert fw.tell() == next_offset
Validate ==
    /\ pc = "Validating"
    /\ IF pos = next_offset
       THEN /\ pc' = "AwaitingBlock"
            /\ UNCHANGED <<data, pos, err, hdr, fw_list, next_offset, count,
                           index, items, peeked, body_start, nested>>
       ELSE Raise("AssertionError", pos)

(***************************************************************************)
(* The streams main() is run on: blocks laid out field by field as the     *)
(* format strings above read them, alone or two in a row, whole or cut     *)
(* short, with declared sizes that match the body or not.                  *)
(***************************************************************************)
\* largest element count of a generated block
MaxCount == 2
\* largest raw segment of a generated block, in bytes
MaxRaw == 2

Magic == <<65, 83, 111, 67>>
OtherMagic == <<88, 83, 111, 67>>
BrokenMagic == <<255, 83, 111, 67>>

LE32(n) == <<n % 256, (n \div 256) % 256, (n \div 65536) % 256,
             (n \div 16777216) % 256>>

Fill(n, v) == [i \in 1..n |-> v]

Ramp(n, v) == [i \in 1..n |-> v + i]

Text(t) == t \o Fill(SND_SOC_FW_TEXT_SIZE - Len(t), 0)

RECURSIVE Flatten(_)
Flatten(ss) == IF ss = <<>> THEN <<>> ELSE ss[1] \o Flatten(Tail(ss))

\* sequences of n items: all dflt but at most one, which is any of K
SeqsOf(K, n, dflt) ==
    {[i \in 1..n |-> IF i = j THEN k ELSE dflt] : j \in 1..n, k \in K}
    \cup {[i \in 1..n |-> dflt]}

\* '<4s5L'
MkHeader(magic, abi, type, vendor_type, size) ==
    magic \o LE32(abi) \o LE32(type) \o LE32(vendor_type) \o LE32(3)
    \o LE32(size)

Block(type, vendor_type, body, delta) ==
    MkHeader(Magic, 1, type, vendor_type, Len(body) + delta) \o body

\* '<32s3L'
MkControlHeader(name, idx, tlv_size) ==
    Text(name) \o LE32(idx) \o LE32(0) \o LE32(tlv_size)

\* '<8L'
MkMixerControl ==
    LE32(0) \o LE32(7) \o LE32(7) \o LE32(4) \o LE32(4) \o LE32(1)
    \o LE32(1) \o LE32(0)

\* '<7L1024s': 16 texts of 32 bytes, then 128 'L' of which 16 are used
MkEnumControl(texts, values) ==
    LE32(4) \o LE32(4) \o LE32(0) \o LE32(0) \o LE32(Len(texts))
    \o LE32(1) \o LE32(Len(texts))
    \o Flatten([i \in 1..SND_SOC_FW_NUM_TEXTS |->
                   IF i <= Len(texts) THEN Text(texts[i]) ELSE Text(<<>>)])
    \o Flatten([i \in 1..SND_SOC_FW_NUM_TEXTS |->
                   IF i <= Len(values) THEN LE32(values[i]) ELSE LE32(0)])
    \o Fill(SND_SOC_FW_NUM_TEXTS * SND_SOC_FW_TEXT_SIZE
            - 4 * SND_SOC_FW_NUM_TEXTS, 0)

OffOn == MkEnumControl(<<<<79, 102, 102>>, <<79, 110>>>>, <<0, 1>>)

\* the control records a block is built from
Kind(idx, body, len, have) ==
    [index |-> idx, body |-> body, len |-> len, have |-> have]

ControlKinds ==
    {Kind(1, "mixer", 0, 0), Kind(68, "mixer", 0, 0), Kind(257, "mixer", 0, 0),
     Kind(6, "enum", 0, 0), Kind(0, "none", 0, 0), Kind(5, "none", 0, 0)}
    \cup {Kind(1, "tlv", lh[1], lh[2]) :
              lh \in {x \in (0..MaxRaw) \X (0..MaxRaw) :
                         x[2] = x[1] \/ x[2] = x[1] - 1}}

Volsw == Kind(1, "mixer", 0, 0)

ControlBody(k) ==
    IF k.body = "mixer" THEN MkMixerControl
    ELSE IF k.body = "enum" THEN OffOn
    ELSE IF k.body = "tlv"
    THEN MkMixerControl \o LE32(3) \o LE32(k.len) \o Ramp(k.have, 32)
    ELSE <<>>

ControlBytes(k, i) ==
    MkControlHeader(<<96 + i>>, k.index,
                    IF k.body = "tlv" THEN TlvSize + k.len ELSE 0)
    \o ControlBody(k)

Deltas == {0, 1}

MixerBodies(K) ==
    {LE32(Len(ks)) \o Flatten([i \in 1..Len(ks) |-> ControlBytes(ks[i], i)]) :
        ks \in UNION {SeqsOf(K, m, Volsw) : m \in 0..MaxCount}}

MixerBlocks ==
    {Block(SND_SOC_FW_MIXER, 0, b, dl) :
        b \in MixerBodies(ControlKinds), dl \in Deltas}

\* '<32s32s32s'
MkGraphElem(i, control) ==
    Text(<<115, 48 + i>>) \o Text(control) \o Text(<<100, 48 + i>>)

GraphBodies(C) ==
    {LE32(n) \o Flatten([i \in 1..n |->
                            MkGraphElem(i, IF i = 1 THEN c ELSE <<>>)]) :
        n \in 0..MaxCount, c \in C}

GraphBlocks ==
    {Block(SND_SOC_FW_DAPM_GRAPH, 0, b, dl) :
        b \in GraphBodies({<<>>, <<99>>, <<255>>}), dl \in Deltas}

\* '<L32s32slLL??2xL'
MkWidget(i, k) ==
    LE32(i) \o Text(<<119, 48 + i>>) \o Text(<<>>) \o LE32(0) \o LE32(0)
    \o LE32(1) \o <<1, 0, 0, 0>> \o LE32(k)

\* a widget with k controls of one kind: k scalar records, or one enum
WidgetKinds(K) == {[k |-> k, kind |-> c] : k \in 0..MaxCount, c \in K}

WidgetControlKinds ==
    {Kind(1, "mixer", 0, 0), Kind(68, "mixer", 0, 0), Kind(6, "enum", 0, 0),
     Kind(0, "none", 0, 0), Kind(5, "none", 0, 0)}

PlainWidget == [k |-> 0, kind |-> Volsw]

WidgetBytes(w, i) ==
    MkWidget(i, w.k)
    \o (IF w.k = 0 THEN <<>>
        ELSE IF w.kind.body = "mixer"
        THEN Flatten([j \in 1..w.k |-> ControlBytes(w.kind, j)])
        ELSE ControlBytes(w.kind, 1))

WidgetBodies(K) ==
    {LE32(Len(ws)) \o Flatten([i \in 1..Len(ws) |-> WidgetBytes(ws[i], i)]) :
        ws \in UNION {SeqsOf(WidgetKinds(K), m, PlainWidget) :
                         m \in 0..MaxCount}}

WidgetBlocks ==
    {Block(SND_SOC_FW_DAPM_WIDGET, 0, b, dl) :
        b \in WidgetBodies(WidgetControlKinds), dl \in Deltas}

\* '<5L' and the four segments, the last `miss` bytes of which are absent
FwBody(pm, cm, dm, sm, miss) ==
    LE32(9) \o LE32(pm) \o LE32(cm) \o LE32(dm) \o LE32(sm)
    \o SubSeq(Ramp(pm, 16) \o Ramp(cm, 32) \o Ramp(dm, 48) \o Ramp(sm, 64),
              1, pm + cm + dm + sm - miss)

FwBlocks ==
    {Block(SND_SOC_FW_VENDOR_FW, 0, FwBody(pm, cm, dm, sm, miss), dl) :
        pm \in 0..MaxRaw, cm \in 0..1, dm \in 0..1, sm \in 0..1,
        miss \in 0..1, dl \in Deltas}

\* a config block of declared size s with `have` bytes behind it
ConfigBlocks ==
    {MkHeader(Magic, 1, SND_SOC_FW_VENDOR_CONFIG, 0, s) \o Ramp(have, 16) :
        s \in 0..MaxRaw, have \in 0..MaxRaw}

\* blocks of the tags main() has no decoder for, and of a tag outside FwType
OtherBlocks ==
    {MkHeader(Magic, 1, t, vt, s) \o Ramp(s, 16) :
        t \in {SND_SOC_FW_DAI_LINK, SND_SOC_FW_VENDOR_COEFF,
               SND_SOC_FW_VENDOR_CODEC, 6},
        vt \in {0}, s \in 0..MaxRaw}
    \cup {MkHeader(Magic, 1, SND_SOC_FW_COEFF, 1, s) \o Ramp(s, 16) :
              s \in 0..MaxRaw}

\* '<3L' and the chunks
CoeffTail(n, size, nsize) ==
    MkHeader(Magic, 1, SND_SOC_FW_COEFF, 0, nsize)
    \o LE32(n) \o LE32(size) \o LE32(5) \o Ramp(size, 16)

CoeffBodies ==
    {LE32(1) \o ControlBytes(k, 1)
     \o CoeffTail(n, size, CoeffDataSize + size + dl) :
        k \in {Kind(6, "enum", 0, 0), Kind(1, "none", 0, 0),
               Kind(5, "none", 0, 0)},
        n \in 0..MaxCount, size \in 0..MaxRaw, dl \in Deltas}

\* the top-level size of a coefficient block: its whole body, or none of it
CoeffBlocks ==
    {MkHeader(Magic, 1, SND_SOC_FW_COEFF, 0, IF whole THEN Len(b) ELSE 0) \o b :
        b \in CoeffBodies, whole \in BOOLEAN}

\* coefficient blocks whose stream ends one byte before the data does
CoeffCut ==
    {MkHeader(Magic, 1, SND_SOC_FW_COEFF, 0, 0)
     \o LE32(1) \o ControlBytes(Kind(1, "none", 0, 0), 1)
     \o MkHeader(Magic, 1, SND_SOC_FW_COEFF, 0, CoeffDataSize + size - dl)
     \o LE32(n) \o LE32(size) \o LE32(5) \o Ramp(size - 1, 16) :
        n \in 1..MaxCount, size \in 1..MaxRaw, dl \in Deltas}

\* headers main() must not accept, whole and cut short
Oddities ==
    {MkHeader(m, a, SND_SOC_FW_VENDOR_CONFIG, 0, 0) :
        m \in {Magic, OtherMagic, BrokenMagic}, a \in {0, 1, 2}}
    \ {MkHeader(Magic, 1, SND_SOC_FW_VENDOR_CONFIG, 0, 0)}

Partial ==
    {SubSeq(MkHeader(Magic, a, SND_SOC_FW_VENDOR_CONFIG, 0, 0), 1, n) :
        a \in {0, 1}, n \in {1, 7, 8, 23}}
    \cup {Fill(n, 0) : n \in {4, 8}}

Singles ==
    MixerBlocks \cup GraphBlocks \cup WidgetBlocks \cup FwBlocks
    \cup ConfigBlocks \cup OtherBlocks \cup CoeffBlocks \cup CoeffCut
    \cup Oddities \cup Partial

\* one block of each tag that main() decodes and validates
Leaders ==
    {Block(SND_SOC_FW_MIXER, 0, LE32(1) \o ControlBytes(Volsw, 1), 0),
     Block(SND_SOC_FW_DAPM_GRAPH, 0, LE32(1) \o MkGraphElem(1, <<>>), 0),
     Block(SND_SOC_FW_DAPM_WIDGET, 0, LE32(1) \o WidgetBytes(PlainWidget, 1), 0),
     Block(SND_SOC_FW_VENDOR_FW, 0, FwBody(1, 0, 0, 1, 0), 0),
     MkHeader(Magic, 1, SND_SOC_FW_VENDOR_CONFIG, 0, 8) \o Ramp(8, 16),
     MkHeader(Magic, 1, SND_SOC_FW_VENDOR_CONFIG, 0, 0),
     MkHeader(Magic, 1, SND_SOC_FW_DAI_LINK, 0, 0),
     MkHeader(Magic, 1, SND_SOC_FW_VENDOR_CODEC, 0, 0),
     MkHeader(Magic, 1, SND_SOC_FW_COEFF, 0, 0) \o LE32(1)
         \o ControlBytes(Kind(1, "none", 0, 0), 1)
         \o CoeffTail(2, 2, CoeffDataSize + 2)}

FwFiles ==
    {<<>>} \cup Singles
    \cup {a \o b : a \in Leaders, b \in Leaders \cup Oddities \cup Partial}

(***************************************************************************)
(* The specification                                                       *)
(***************************************************************************)
Init ==
    /\ data \in FwFiles
    /\ pos = 0
    /\ pc = "AwaitingBlock"
    /\ err = "none"
    /\ hdr = <<>>
    /\ fw_list = <<>>
    /\ next_offset = 0
    /\ count = 0
    /\ index = 0
    /\ items = <<>>
    /\ peeked = <<>>
    /\ body_start = 0
    /\ nested = <<>>

Next ==
    \/ PeekBlock
    \/ DecodeHeader
    \/ MixerBegin
    \/ MixerControl
    \/ MixerEnd
    \/ GraphBegin
    \/ GraphElem
    \/ GraphEnd
    \/ WidgetBegin
    \/ WidgetElem
    \/ WidgetEnd
    \/ DaiLink
    \/ CoeffBegin
    \/ CoeffNested
    \/ VendorFw
    \/ VendorConfig
    \/ NotSupported
    \/ Validate

Spec == Init /\ [][Next]_vars

(***************************************************************************)
(* Properties                                                              *)
(***************************************************************************)
LastBlock == fw_list[Len(fw_list)]

LastPeek == peeked[Len(peeked)]

\* the block that was decoded last has passed line 358
Validated == pc = "AwaitingBlock" /\ Len(fw_list) > 0

\* C1: when the cursor differs from next_offset after a body decoder has
\* returned, the run fails with the assertion of line 358; a failed run
\* decodes no header, moves the cursor no further and never becomes Done.
C1_FramingMismatchIsFatal ==
    [][/\ (pc = "Validating" /\ pos # next_offset)
              => (pc' = "Failed" /\ err' = "AssertionError")
       /\ (pc = "Failed")
              => (pc' = "Failed" /\ pos' = pos /\ hdr' = hdr
                  /\ fw_list' = fw_list)]_vars

C1_Witness ==
    pc = "Failed" /\ err = "AssertionError" /\ pos # next_offset

\* C2 as stated: after every validated block of the six decoded tags the
\* cursor is at the end of the top-level header plus the size recorded for
\* the block in fw_list.
C2_TopLevelFraming ==
    (Validated /\ LastBlock.type \in {SND_SOC_FW_MIXER, SND_SOC_FW_DAPM_GRAPH,
                                      SND_SOC_FW_DAPM_WIDGET, SND_SOC_FW_COEFF,
                                      SND_SOC_FW_VENDOR_FW,
                                      SND_SOC_FW_VENDOR_CONFIG})
        => pos = body_start + LastBlock.size

\* C2 amended: after every validated block the cursor is at the position
\* where the body decoder started plus the size recorded for the block,
\* except after a coefficient block with a nested header, where it is at
\* the end of the nested header plus the nested header's size.
C2_Framing ==
    Validated =>
        IF nested # <<>> THEN pos = nested[1].start + nested[1].size
        ELSE pos = body_start + LastBlock.size

C2_Witness ==
    /\ Validated
    /\ nested # <<>>
    /\ pos # body_start + LastBlock.size

\* the classification table of the specification
SpecScalarCodes == {1, 2, 3, 4, 8, 9, 11, 12, 64, 68}
SpecEnumCodes == {6, 7, 10, 65, 66, 67, 69}

\* streams of one block whose declared size is the length of its body,
\* with controls of the codes of the table only and nothing cut short
ClassifiableKinds ==
    {k \in ControlKinds :
        k.index % 256 \in SpecScalarCodes \cup SpecEnumCodes /\ k.have = k.len}

WellFormedBlocks ==
    {Block(SND_SOC_FW_MIXER, 0, b, 0) : b \in MixerBodies(ClassifiableKinds)}
    \cup {Block(SND_SOC_FW_DAPM_GRAPH, 0, b, 0) :
              b \in GraphBodies({<<>>, <<99>>})}
    \cup {Block(SND_SOC_FW_DAPM_WIDGET, 0, b, 0) :
              b \in WidgetBodies(WidgetControlKinds \cap ClassifiableKinds)}
    \cup {Block(SND_SOC_FW_VENDOR_FW, 0, FwBody(pm, cm, dm, sm, 0), 0) :
              pm \in 0..MaxRaw, cm \in 0..1, dm \in 0..1, sm \in 0..1}
    \cup {MkHeader(Magic, 1, SND_SOC_FW_VENDOR_CONFIG, 0, n) \o Ramp(n, 16) :
              n \in 0..MaxRaw}

\* C3: a well-formed block of a fully specified tag with classifiable
\* controls only never reaches line 358 with the cursor off next_offset.
C3_WellFormedNeverMisframed ==
    (data \in WellFormedBlocks /\ pc = "Validating") => pos = next_offset

\* C4: a header whose abi_version is not 1 fails the run at that header,
\* first block or later: no fw_list entry is added and nothing is read.
C4_BadAbiIsFatal ==
    [][(/\ pc = "DecodingHeader"
        /\ abi_version(data, pos).err = "none"
        /\ abi_version(data, pos).val # 1)
           => (pc' = "Failed" /\ fw_list' = fw_list /\ pos' = pos)]_vars

\* C5: a header whose magic is not the signature fails the run at that
\* header and adds no fw_list entry.
C5_BadMagicIsFatal ==
    [][(/\ pc = "DecodingHeader"
        /\ Len(Read(data, pos, HeaderSize)) = HeaderSize
        /\ Read(data, pos, 4) # Magic)
           => (pc' = "Failed" /\ fw_list' = fw_list)]_vars

\* C6: once 1..23 bytes are left at a block boundary the run never becomes
\* Done and fw_list gets no entry for those bytes.
C6_PartialHeaderIsFatal ==
    \A i \in 1..Len(peeked) :
        (peeked[i].avail >= 1 /\ peeked[i].avail < HeaderSize)
            => (pc # "Done" /\ Len(fw_list) = peeked[i].blocks)

\* C7: behind the header of a tag without a body decoder exactly
\* declared_size bytes are consumed, so that line 358 passes.
C7_UndecodedTagIsSkipped ==
    (/\ pc = "Validating"
     /\ LastPeek.fresh
     /\ LastBlock.type \in {SND_SOC_FW_DAI_LINK, SND_SOC_FW_VENDOR_COEFF,
                            SND_SOC_FW_VENDOR_CODEC})
        => (pos = body_start + LastBlock.size /\ pos = next_offset)

\* the control header at cursor p can be read, and its code
ControlHeaderAt(p) ==
    /\ Len(Read(data, p, ControlHeaderSize)) = ControlHeaderSize
    /\ Utf8Valid(Read(data, p, SND_SOC_FW_TEXT_SIZE))

CodeAt(p) == U32(Read(data, p, ControlHeaderSize), 32) % 256

\* what the table asks of the control decoded from the header at p
Classified(p, control) ==
    IF CodeAt(p) \in SpecScalarCodes
    THEN pc' = "Failed" \/ (control.mixer # <<>> /\ control.enum = <<>>)
    ELSE IF CodeAt(p) \in SpecEnumCodes
    THEN pc' = "Failed" \/ (control.mixer = <<>> /\ control.enum # <<>>)
    ELSE /\ pc' # "Failed"
         /\ control.mixer = <<>>
         /\ control.enum = <<>>

\* C8: in the mixer decoder and in the widget decoder alike, index & 0xff
\* selects a scalar record for the scalar codes of the table, an enum
\* record for its enum codes and no record, without a failure, otherwise.
C8_OneClassification ==
    [][/\ (pc = "MixerLoop" /\ index < count /\ ControlHeaderAt(pos))
              => /\ err' # "ValueError"
                 /\ Classified(pos, items'[Len(items')])
       /\ (/\ pc = "WidgetLoop"
           /\ index < count
           /\ SndSocFwDapmWidget(data, pos).err = "none"
           /\ SndSocFwDapmWidget(data, pos).val.kcontrol_count # 0
           /\ ControlHeaderAt(pos + WidgetSize))
              => /\ err' # "ValueError"
                 /\ Classified(pos + WidgetSize,
                               items'[Len(items')].controls[1])]_vars

\* C9: a validated firmware block holds four consecutive slices of the
\* stream, each as long as its size field, and the cursor is behind them.
C9_FirmwareSegmentsExact ==
    (Validated /\ LastPeek.fresh /\ LastBlock.body.key = "fw") =>
        LET b == LastBlock.body
            p0 == body_start + AbeHeaderSize
            p1 == p0 + b.pmem_size
            p2 == p1 + b.cmem_size
            p3 == p2 + b.dmem_size
        IN  /\ Len(b.pmem) = b.pmem_size
            /\ Len(b.cmem) = b.cmem_size
            /\ Len(b.dmem) = b.dmem_size
            /\ Len(b.smem) = b.smem_size
            /\ b.pmem = Read(data, p0, b.pmem_size)
            /\ b.cmem = Read(data, p1, b.cmem_size)
            /\ b.dmem = Read(data, p2, b.dmem_size)
            /\ b.smem = Read(data, p3, b.smem_size)
            /\ pos = p3 + b.smem_size

\* bytes of the control c as the specification lays it out
ControlSpan(c) ==
    ControlHeaderSize
    + (IF c.mixer # <<>> THEN MixerControlSize ELSE 0)
    + (IF c.enum # <<>> THEN EnumControlSize ELSE 0)
    + (IF c.tlv_size # 0 /\ c.tlv # <<>> THEN TlvSize + c.tlv[1].length ELSE 0)

RECURSIVE SpanUpTo(_, _)
SpanUpTo(cs, n) == IF n = 0 THEN 0 ELSE SpanUpTo(cs, n - 1) + ControlSpan(cs[n])

\* C10: a decoded mixer block of classifiable controls has count controls
\* in stream order; a scalar control has a TLV exactly when tlv_size # 0,
\* and then 8 + length bytes are consumed for it, else none.
C10_MixerControls ==
    (/\ pc = "Validating"
     /\ LastPeek.fresh
     /\ LastBlock.body.key = "mixer"
     /\ \A i \in 1..Len(LastBlock.body.controls) :
            LastBlock.body.controls[i].id_info
                \in SpecScalarCodes \cup SpecEnumCodes)
        => LET cs == LastBlock.body.controls
               at(i) == body_start + KControlSize + SpanUpTo(cs, i - 1)
           IN  /\ Len(cs) = LastBlock.body.count
               /\ \A i \in 1..Len(cs) :
                      /\ cs[i].name
                             = RStrip(Read(data, at(i), SND_SOC_FW_TEXT_SIZE))
                      /\ cs[i].mixer # <<>>
                             => /\ (cs[i].tlv # <<>>) <=> (cs[i].tlv_size # 0)
                                /\ cs[i].tlv # <<>>
                                       => Len(cs[i].tlv[1].value)
                                              = cs[i].tlv[1].length
               /\ pos = at(Len(cs) + 1)

(***************************************************************************)
(* SndSocFwEnumControl on its own: one record at the start of the stream   *)
(***************************************************************************)
\* slots of a generated record that carry a label of their own
EnumSlots == 3
\* largest value of such a slot
MaxEnumValue == 1

EnumLabels == {<<>>, <<65>>, <<66>>}

\* records whose first EnumSlots slots vary; the other slots are empty
\* and have the value 7
EnumRecords ==
    {MkEnumControl(texts, values \o Fill(SND_SOC_FW_NUM_TEXTS - EnumSlots, 7)) :
        texts \in [1..EnumSlots -> EnumLabels],
        values \in [1..EnumSlots -> 0..MaxEnumValue]}

InitEnum ==
    /\ data \in EnumRecords
    /\ pos = 0
    /\ pc = "EnumControl"
    /\ err = "none"
    /\ hdr = <<>>
    /\ fw_list = <<>>
    /\ next_offset = 0
    /\ count = 0
    /\ index = 0
    /\ items = <<>>
    /\ peeked = <<>>
    /\ body_start = 0
    /\ nested = <<>>

\* ec = SndSocFwEnumControl(fw), as at lines 256, 311 and 330
EnumControl ==
    /\ pc = "EnumControl"
    /\ LET ec == SndSocFwEnumControl(data, pos)
       IN  IF ec.err # "none" THEN Raise(ec.err, ec.pos)
           ELSE /\ pos' = ec.pos
                /\ items' = <<ec.val>>
                /\ pc' = "EnumDecoded"
                /\ UNCHANGED <<data, err, hdr, fw_list, next_offset, count,
                               index, peeked, body_start, nested>>

SpecEnum == InitEnum /\ [][EnumControl]_vars

\* label and value of slot i of the record at the start of the stream
SlotText(i) ==
    RStrip(Read(data, 28 + SND_SOC_FW_TEXT_SIZE * (i - 1),
                SND_SOC_FW_TEXT_SIZE))

SlotValue(i) ==
    U32(data, 28 + SND_SOC_FW_NUM_TEXTS * SND_SOC_FW_TEXT_SIZE + 4 * (i - 1))

UsedSlots == {i \in 1..SND_SOC_FW_NUM_TEXTS : SlotText(i) # <<>>}

\* C11 as stated: the exported table has one pair per non-empty slot,
\* label i with value i, and as many pairs as there are non-empty slots.
C11_OnePairPerSlot ==
    pc = "EnumDecoded" =>
        /\ Cardinality(DOMAIN items[1].values) = Cardinality(UsedSlots)
        /\ \A i \in UsedSlots :
               /\ SlotText(i) \in DOMAIN items[1].values
               /\ items[1].values[SlotText(i)] = SlotValue(i)

\* C11 amended: the exported table is a mapping with one pair per distinct
\* non-empty label, carrying the value of the last slot with that label;
\* empty slots contribute nothing.
C11_OnePairPerLabel ==
    pc = "EnumDecoded" =>
        /\ DOMAIN items[1].values = {SlotText(i) : i \in UsedSlots}
        /\ \A i \in UsedSlots :
               (\A j \in UsedSlots : j > i => SlotText(j) # SlotText(i))
                   => items[1].values[SlotText(i)] = SlotValue(i)

C11_Witness ==
    /\ pc = "EnumDecoded"
    /\ \E i, j \in UsedSlots :
           /\ i < j
           /\ SlotText(i) = SlotText(j)
           /\ SlotValue(i) # SlotValue(j)
           /\ items[1].values[SlotText(i)] = SlotValue(j)
    /\ \E i \in 1..EnumSlots : i \notin UsedSlots

\* C12: on a stream of zero bytes the only step is the peek that ends the
\* loop: the run becomes Done, no header is decoded, no error is raised,
\* no block is appended and the cursor stays at 0.
C12_EmptyStreamIsDone ==
    [][data = <<>> => /\ pc = "AwaitingBlock"
                      /\ pc' = "Done"
                      /\ fw_list' = <<>>
                      /\ hdr' = <<>>
                      /\ err' = "none"
                      /\ pos' = 0]_vars

C12_Witness ==
    /\ data = <<>>
    /\ pc = "Done"
    /\ fw_list = <<>>
    /\ hdr = <<>>
    /\ err = "none"
    /\ Len(peeked) = 1

\* C13: a decoded widget with kcontrol_count 0 consumes no control bytes
\* and has no children; with k >= 1 and a first header of a scalar code it
\* consumes k control headers and k mixer records and has k children with
\* one mixer record each; with a first header of an enum code it consumes
\* one header and one enum record and has one child, whatever k is.
C13_WidgetControls ==
    [][(pc = "WidgetLoop" /\ index' = index + 1) =>
          LET k == SndSocFwDapmWidget(data, pos).val.kcontrol_count
              p0 == pos + WidgetSize
              children == items'[Len(items')].controls
          IN  /\ k = 0 => (pos' = p0 /\ children = <<>>)
              /\ (k >= 1 /\ CodeAt(p0) \in SpecScalarCodes)
                     => /\ pos' = p0 + k * (ControlHeaderSize
                                             + MixerControlSize)
                        /\ Len(children) = k
                        /\ \A i \in 1..Len(children) :
                               /\ Len(children[i].mixer) = 1
                               /\ children[i].enum = <<>>
              /\ (k >= 1 /\ CodeAt(p0) \in SpecEnumCodes)
                     => /\ pos' = p0 + ControlHeaderSize + EnumControlSize
                        /\ Len(children) = 1
                        /\ Len(children[1].enum) = 1
                        /\ children[1].mixer = <<>>]_vars

\* the coefficient data of the block decoded last, and where it starts
CoeffDecoded ==
    /\ pc = "Validating"
    /\ LastBlock.body.key = "coefficients"
    /\ "data" \in DOMAIN LastBlock.body

ChunkStart == nested[1].start + CoeffDataSize

RECURSIVE TotalLen(_, _)
TotalLen(chunks, n) ==
    IF n = 0 THEN 0 ELSE TotalLen(chunks, n - 1) + Len(chunks[n])

\* C14 as stated: the count chunks of a coefficient set sum to byte_size
\* bytes and the cursor advances by byte_size over them, for every count
\* and byte_size.
C14_ChunksSumToSize ==
    CoeffDecoded =>
        LET cd == LastBlock.body.data
        IN  /\ Len(cd.values) = cd.count
            /\ TotalLen(cd.values, Len(cd.values)) = cd.size
            /\ pos = ChunkStart + cd.size

\* C14 amended: the decoder reads count chunks of floor(byte_size / count)
\* bytes each, a chunk being shorter only where the stream ends; the cursor
\* advances by the bytes read, count * floor(byte_size / count) when the
\* stream holds them, which is byte_size exactly when count >= 1 divides
\* it; with count = 0 nothing is read or divided.
C14_ChunksOfFloor ==
    CoeffDecoded =>
        LET cd == LastBlock.body.data
            chunk == IF cd.count = 0 THEN 0 ELSE cd.size \div cd.count
            at(i) == Min(ChunkStart + (i - 1) * chunk, Len(data))
        IN  /\ Len(cd.values) = cd.count
            /\ \A i \in 1..Len(cd.values) :
                   /\ cd.values[i] = Read(data, at(i), chunk)
                   /\ Len(cd.values[i])
                          = Min(chunk, Len(data) - at(i))
            /\ pos = ChunkStart + TotalLen(cd.values, Len(cd.values))
            /\ pos = at(cd.count + 1)
            /\ ChunkStart + cd.count * chunk <= Len(data)
                   => (pos = ChunkStart + cd.size
                          <=> \/ cd.count >= 1 /\ cd.size % cd.count = 0
                              \/ cd.count = 0 /\ cd.size = 0)

C14_Witness ==
    /\ CoeffDecoded
    /\ LastBlock.body.data.count = 2
    /\ LastBlock.body.data.size = 1
    /\ LastBlock.body.data.values = <<<<>>, <<>>>>
    /\ pos = ChunkStart
    /\ pos < Len(data)

\* C15: every loop iteration that does not fail strictly advances the
\* cursor, so that the loop ends after finitely many iterations and the
\* container does not grow without bound on a finite stream.
C15_IterationAdvances ==
    Validated => pos > LastPeek.at

\* C16: when a run is Done, the container holds one block per top-level
\* header decoded from the stream, in stream order, and the type,
\* vendor_type, vendor_version and size of each block are those of the
\* header at the place where its iteration began.
C16_BlocksMatchHeaders ==
    pc = "Done" =>
        /\ Len(peeked) = Len(fw_list) + 1
        /\ \A i \in 1..Len(fw_list) :
               LET h == SndSocFwHeader(data, peeked[i].at)
               IN  /\ peeked[i].fresh
                   /\ h.err = "none"
                   /\ fw_list[i].type = h.val.type
                   /\ fw_list[i].vendor_type = h.val.vendor_type
                   /\ fw_list[i].vendor_version = h.val.vendor_version
                   /\ fw_list[i].size = h.val.size

\* bytes read for the decoded control c: its fixed records and its raw TLV
BytesOfControl(c) ==
    ControlHeaderSize
    + (IF c.mixer # <<>> THEN MixerControlSize ELSE 0)
    + (IF c.enum # <<>> THEN EnumControlSize ELSE 0)
    + (IF c.tlv # <<>> THEN TlvSize + Len(c.tlv[1].value) ELSE 0)

RECURSIVE BytesOfControls(_, _)
BytesOfControls(cs, n) ==
    IF n = 0 THEN 0 ELSE BytesOfControls(cs, n - 1) + BytesOfControl(cs[n])

\* a fixed record decoded at the cursor without error ends s bytes on
FixedRecordsAtCursor ==
    /\ SndSocFwHeader(data, pos).err = "none"
           => SndSocFwHeader(data, pos).pos = pos + HeaderSize
    /\ SndSocFwControlTlv(data, pos).err = "none"
           => SndSocFwControlTlv(data, pos).pos = pos + TlvSize
    /\ SndSocFwControlHeader(data, pos).err = "none"
           => SndSocFwControlHeader(data, pos).pos = pos + ControlHeaderSize
    /\ SndSocFwMixerControl(data, pos).err = "none"
           => SndSocFwMixerControl(data, pos).pos = pos + MixerControlSize
    /\ SndSocFwEnumControl(data, pos).err = "none"
           => SndSocFwEnumControl(data, pos).pos = pos + EnumControlSize
    /\ SndSocFwKControl(data, pos).err = "none"
           => SndSocFwKControl(data, pos).pos = pos + KControlSize
    /\ SndSocFwDapmGraphElem(data, pos).err = "none"
           => SndSocFwDapmGraphElem(data, pos).pos = pos + GraphElemSize
    /\ SndSocFwDapmWidget(data, pos).err = "none"
           => SndSocFwDapmWidget(data, pos).pos = pos + WidgetSize
    /\ SndSocFileCoeffData(data, pos).err = "none"
           => SndSocFileCoeffData(data, pos).pos = pos + CoeffDataSize
    /\ AbeFirmwareHeader(data, pos).err = "none"
           => AbeFirmwareHeader(data, pos).pos = pos + AbeHeaderSize

\* C17: the cursor never moves back and never passes the end of the stream;
\* the peek at the head of the loop and the check of line 358 leave it where
\* it is; every step that decodes fixed records advances it by the sizes of
\* their layouts, and every raw read by the bytes it returns.
C17_CursorForward ==
    [][LET last == fw_list'[Len(fw_list')]
       IN  /\ pos' >= pos
           /\ pos' <= Len(data)
           /\ FixedRecordsAtCursor
           /\ pc \in {"AwaitingBlock", "Validating"} => pos' = pos
           /\ (pc = "DecodingHeader" /\ pc' = "DecodingBody")
                  => pos' = pos + (IF peeked'[Len(peeked')].fresh
                                   THEN HeaderSize ELSE 0)
           /\ (pc = "DecodingBody"
               /\ pc' \in {"MixerLoop", "GraphLoop", "WidgetLoop"})
                  => pos' = pos + KControlSize
           /\ (pc = "MixerLoop" /\ index' = index + 1)
                  => pos' = pos + BytesOfControl(items'[Len(items')])
           /\ (pc = "GraphLoop" /\ index' = index + 1)
                  => pos' = pos + GraphElemSize
           /\ (pc = "WidgetLoop" /\ index' = index + 1)
                  => LET cs == items'[Len(items')].controls
                     IN  pos' = pos + WidgetSize
                                    + BytesOfControls(cs, Len(cs))
           /\ (pc = "DecodingBody" /\ pc' = "CoeffData")
                  => pos' = pos + KControlSize + ControlHeaderSize
                                + (IF last.body.enum # <<>>
                                   THEN EnumControlSize ELSE 0)
           /\ (pc = "CoeffData" /\ pc' = "Validating")
                  => pos' = pos + HeaderSize + CoeffDataSize
                                + TotalLen(last.body.data.values,
                                           Len(last.body.data.values))
           /\ (pc = "DecodingBody" /\ pc' = "Validating")
                  => pos' = pos
                         + (IF last.body.key = "fw"
                            THEN AbeHeaderSize + Len(last.body.pmem)
                                 + Len(last.body.cmem) + Len(last.body.dmem)
                                 + Len(last.body.smem)
                            ELSE IF last.body.key = "config"
                            THEN Len(last.body.config)
                            ELSE 0)]_vars

C17_Witness ==
    /\ pc = "Done"
    /\ pos = Len(data)
    /\ Len(fw_list) = 2
    /\ peeked[1].fresh
    /\ peeked[2].fresh
    /\ peeked[2].at > HeaderSize
    /\ fw_list[1].body.key = "dapm_widget"
    /\ fw_list[2].body.key = "coefficients"

====
